---- MODULE Spec2Model ----
(***************************************************************************)
(* Model of the recipe API (app/recipe/views.py, app/recipe/serializers.py)*)
(* as a state machine over the entity store.  One request is one atomic    *)
(* step: authentication and permission check, queryset scoping, serializer *)
(* validation, then the write.  The rows of the store (core.models, which  *)
(* the views and serializers import) are records keyed by their            *)
(* auto-assigned identifier.                                               *)
(*                                                                         *)
(* The scalar columns of Recipe (title, time_minutes, price, link) are all  *)
(* read and written alike by the model serializer; the model keeps one of  *)
(* them, the required title.                                               *)
(*                                                                         *)
(* Spec takes one request as one step.  SpecConc runs the statements of    *)
(* RecipeSerializer.create of several requests interleaved, with a reader  *)
(* of the store beside them.                                               *)
(***************************************************************************)
EXTENDS Integers, Sequences, FiniteSets, TLC

VARIABLES recipes, tags, ingredients, nextId, resp, proc, seen

vars == <<recipes, tags, ingredients, nextId, resp, proc, seen>>

(* ------------------------------ bounds --------------------------------- *)
\* identifiers handed out per table before the model stops creating rows
MaxRecipeId == 2
MaxTagId == 2
MaxIngredientId == 1

(* ------------------------------ inputs --------------------------------- *)
Users == {"u1", "u2"}
\* a request without a resolved identity (no or invalid token)
Anonymous == "anon"
Callers == Users \cup {Anonymous}

\* the names of tags, and of ingredients
Names == {"a", "b"}
IngredientNames == {"a"}
NamesOf(res) == IF res = "ingredient" THEN IngredientNames ELSE Names
\* a nested object that has no "name" key
NoName == "?"
\* the title test_recipe_api.create_recipe fills in
DefaultTitle == "t1"
\* the title a request body carries
NewTitle == "t2"

\* nested lists a client submits under "tags"
TagLists ==
    { <<>>, <<"a">>, <<"b">>, <<"a", "a">>, <<"a", "b">>, <<"a", NoName>> }
\* nested lists a client submits under "ingredients"
IngredientLists == { <<>>, <<"a">>, <<NoName>> }

PayloadKeys == {"title", "tags", "ingredients", "user"}

\* A request body: keys says which keys are present; the value of an absent
\* key is a filler no handler reads.
Body(keys, tagList, ingredientList, user) ==
    [ keys |-> keys, title |-> NewTitle, tags |-> tagList,
      ingredients |-> ingredientList, user |-> user ]

\* the bodies sent to the recipe endpoints: the scalar alone, a nested list
\* with and without the required title, both nested lists, and a
\* client-supplied owner
Payloads ==
    { Body(k, <<>>, <<>>, "u1") : k \in SUBSET {"title"} }
    \cup { Body(k \cup {"tags"}, l, <<>>, "u1") :
             k \in {{}, {"title"}}, l \in TagLists }
    \cup { Body(k \cup {"ingredients"}, <<>>, l, "u1") :
             k \in {{}, {"title"}}, l \in IngredientLists }
    \cup { Body({"title", "tags", "ingredients"}, <<"a">>, <<"a">>, "u1") }
    \cup { Body(k \cup {"user"}, <<>>, <<>>, u) :
             k \in {{}, {"title"}}, u \in Users }

\* bodies of the attribute endpoints: {"name": n} or {}
AttrPayloads(res) == NamesOf(res) \cup {NoName}

\* the query parameters of GET recipe-list: keys holds the parameters that
\* are present, tag and ingredient the ids each one lists
TagIdSets == { {1}, {1, 2} }
IngredientIdSets == { {1} }
RecipeParams ==
    { [ keys |-> {}, tag |-> {}, ingredient |-> {} ] }
    \cup { [ keys |-> {"tag"}, tag |-> t, ingredient |-> {} ] : t \in TagIdSets }
    \cup { [ keys |-> {"ingredient"}, tag |-> {}, ingredient |-> i ] :
             i \in IngredientIdSets }
    \cup { [ keys |-> {"tag", "ingredient"}, tag |-> t, ingredient |-> i ] :
             t \in TagIdSets, i \in IngredientIdSets }
NoParams == [ keys |-> {}, tag |-> {}, ingredient |-> {} ]

(* ------------------------------ the store ------------------------------ *)
\* recipes     : id -> [user, title, tag, ingredient]   (tag and
\*               ingredient are the many-to-many sets, as sets of ids)
\* tags        : id -> [user, name]
\* ingredients : id -> [user, name]
\* nextId      : the next auto-assigned id of each table
DB == [ recipes |-> recipes, tags |-> tags, ingredients |-> ingredients,
        nextId |-> nextId ]

Resources == {"recipe", "tag", "ingredient"}
AttrResources == {"tag", "ingredient"}

Table(db, res) ==
    IF res = "recipe" THEN db.recipes
    ELSE IF res = "tag" THEN db.tags ELSE db.ingredients

\* db with the table of an attribute resource replaced
WithAttrTable(db, res, tbl) ==
    IF res = "tag" THEN [db EXCEPT !.tags = tbl]
    ELSE [db EXCEPT !.ingredients = tbl]

\* the rows of tbl without row i
Without(tbl, i) == [ j \in DOMAIN tbl \ {i} |-> tbl[j] ]

\* the rows of tbl with row i set to row
With(tbl, i, row) ==
    [ j \in DOMAIN tbl \cup {i} |-> IF j = i THEN row ELSE tbl[j] ]

\* the collation of names: order_by("-name") compares names by it
NameRank(n) == IF n = "a" THEN 1 ELSE IF n = "b" THEN 2 ELSE 0

Max(S) == CHOOSE x \in S : \A y \in S : y <= x

RECURSIVE OrderByIdDesc(_)
\* order_by("-id"): the ids of S, largest first
OrderByIdDesc(S) ==
    IF S = {} THEN <<>>
    ELSE LET m == Max(S) IN <<m>> \o OrderByIdDesc(S \ {m})

RECURSIVE OrderByNameDesc(_, _)
\* order_by("-name"): the ids of S, by descending name of their row in tbl
\* (rows of equal name in an unspecified but fixed order)
OrderByNameDesc(tbl, S) ==
    IF S = {} THEN <<>>
    ELSE LET top == { i \in S :
                        \A j \in S : NameRank(tbl[j].name) <= NameRank(tbl[i].name) }
             m == Max(top)
         IN <<m>> \o OrderByNameDesc(tbl, S \ {m})

Range(s) == { s[i] : i \in 1..Len(s) }

(* ------------------------------ responses ------------------------------ *)
OK == "200"
Created == "201"
NoContent == "204"
BadRequest == "400"
Unauthorized == "401"
NotFound == "404"
MethodNotAllowed == "405"
ServerError == "500"

\* what a serializer renders of a row
RecipeRow(db, i) == [ id |-> i, title |-> db.recipes[i].title ]
AttrRow(tbl, i) == [ id |-> i, name |-> tbl[i].name ]

\* a handler's outcome: the status, the rendered rows, the id the request
\* addressed or created (0: none) and the store it leaves
Result(status, data, id, db) ==
    [ status |-> status, data |-> data, id |-> id, db |-> db ]

(* ------------------------------ views.py ------------------------------- *)
\* mutant: permission_classes = [AllowAny]
IsAuthenticated_allow_any(caller) == TRUE

\* permission_classes = [IsAuthenticated] behind TokenAuthentication
IsAuthenticated(caller) == caller \in Users

\* queryset.filter(user=self.request.user)
FilterUser(tbl, user) == { i \in DOMAIN tbl : tbl[i].user = user }

RECURSIVE OrderByIdAsc(_)
OrderByIdAsc(S) ==
    IF S = {} THEN <<>>
    ELSE LET m == Max(S) IN OrderByIdAsc(S \ {m}) \o <<m>>

\* mutant: the queryset without filter(user=...)
RecipeViewSet_get_queryset_unscoped(db, user) ==
    OrderByIdDesc(DOMAIN db.recipes)

\* mutant: order_by("id")
RecipeViewSet_get_queryset_ascending(db, user) ==
    OrderByIdAsc(FilterUser(db.recipes, user))

\* RecipeViewSet.get_queryset
RecipeViewSet_get_queryset(db, user) ==
    OrderByIdDesc(FilterUser(db.recipes, user))

\* mutant: the queryset without filter(user=...)
BaseRecipeAtrrViewSet_get_queryset_unscoped(tbl, user) ==
    OrderByNameDesc(tbl, DOMAIN tbl)

\* BaseRecipeAtrrViewSet.get_queryset, on the table of TagViewtSet or
\* IngredientViewSet
BaseRecipeAtrrViewSet_get_queryset(tbl, user) ==
    OrderByNameDesc(tbl, FilterUser(tbl, user))

\* the actions a view set routes: ModelViewSet has all five, the attribute
\* view sets mix in destroy, update and list only
ViewSetActions(res) ==
    IF res = "recipe" THEN {"list", "create", "retrieve", "update", "destroy"}
    ELSE {"list", "update", "destroy"}

\* get_object(): the row of the scoped queryset with that id, if any
InQueryset(qs, id) == id \in Range(qs)

(* ---------------------------- core.models ------------------------------ *)
\* the store's unique constraint on (owner, name) of Tag and of Ingredient:
\* row id may carry (user, name) iff no other row of the table does
UniqueOwnerName(tbl, id, user, name) ==
    \A j \in DOMAIN tbl \ {id} : ~(tbl[j].user = user /\ tbl[j].name = name)

\* Model.delete() of a Tag or Ingredient row: the row goes, and with it its
\* membership rows in the many-to-many table of every recipe
DeleteAttr(db, res, id) ==
    LET gone == WithAttrTable(db, res, Without(Table(db, res), id))
    IN [ gone EXCEPT !.recipes =
           [ r \in DOMAIN db.recipes |->
               IF res = "tag"
               THEN [ db.recipes[r] EXCEPT !.tag = @ \ {id} ]
               ELSE [ db.recipes[r] EXCEPT !.ingredient = @ \ {id} ] ] ]

\* Model.delete() of a Recipe row (its membership rows go with it)
DeleteRecipe(db, id) == [ db EXCEPT !.recipes = Without(db.recipes, id) ]

(* --------------------------- serializers.py ---------------------------- *)
\* TagSerializer: fields id (read-only) and name (required)
TagSerializer_is_valid(item) == item # NoName

\* IngredientSerializer, which views.py names: the shape of TagSerializer
IngredientSerializer_is_valid(item) == item # NoName

AttrSerializer_is_valid(res, item) ==
    IF res = "tag" THEN TagSerializer_is_valid(item)
    ELSE IngredientSerializer_is_valid(item)

\* RecipeSerializer.Meta.fields a client can write (id is read-only); keys
\* of the body outside them never reach validated_data
RecipeSerializer_fields == {"title", "tags"}

\* RecipeSerializer.is_valid(): title is required unless the update is
\* partial, and every nested tag object must validate
RecipeSerializer_is_valid(p, partial) ==
    /\ (partial \/ "title" \in p.keys)
    /\ ("tags" \in p.keys =>
            \A i \in 1..Len(p.tags) : TagSerializer_is_valid(p.tags[i]))

\* validated_data of a valid body
RecipeSerializer_validated_data(p) ==
    [ p EXCEPT !.keys = p.keys \cap RecipeSerializer_fields ]

\* mutant: Tag.objects.create(user=user, name=name)
get_or_create_always_creates(tbl, next, user, name) ==
    [ ok |-> TRUE, id |-> next, next |-> next + 1,
      tbl |-> With(tbl, next, [user |-> user, name |-> name]) ]

\* mutant: Tag.objects.get_or_create(name=name), whoever owns the row
get_or_create_any_user(tbl, next, user, name) ==
    LET found == { i \in DOMAIN tbl : tbl[i].name = name }
    IN  IF found = {}
        THEN [ ok |-> TRUE, id |-> next, next |-> next + 1,
               tbl |-> With(tbl, next, [user |-> user, name |-> name]) ]
        ELSE [ ok |-> TRUE, id |-> CHOOSE i \in found : TRUE, next |-> next,
               tbl |-> tbl ]

\* Tag.objects.get_or_create(user=user, name=name) on table tbl whose next
\* id is next: the matching row, or a new one; get() raises when several
\* rows match
get_or_create(tbl, next, user, name) ==
    LET found == { i \in DOMAIN tbl : tbl[i].user = user /\ tbl[i].name = name }
    IN  IF found = {}
        THEN [ ok |-> TRUE, id |-> next, next |-> next + 1,
               tbl |-> With(tbl, next, [user |-> user, name |-> name]) ]
        ELSE IF Cardinality(found) = 1
        THEN [ ok |-> TRUE, id |-> CHOOSE i \in found : TRUE, next |-> next,
               tbl |-> tbl ]
        ELSE [ ok |-> FALSE, id |-> 0, next |-> next, tbl |-> tbl ]

RECURSIVE CreateTagLoop(_, _, _)
\* the loop "for tag in tags" of RecipeSerializer.create, from the state st =
\* [tags, next, tag, ok]: the Tag table, its next id, the recipe's tag set so
\* far and whether no get_or_create has raised
CreateTagLoop(st, names, auth_user) ==
    IF names = <<>> \/ ~st.ok THEN st
    ELSE LET g == get_or_create(st.tags, st.next, auth_user, Head(names))
         IN CreateTagLoop(
                [ tags |-> g.tbl, next |-> g.next, ok |-> g.ok,
                  tag |-> IF g.ok THEN st.tag \cup {g.id} ELSE st.tag ],
                Tail(names), auth_user)

\* RecipeSerializer.create(validated_data) where validated_data carries the
\* user that save() was given and auth_user is context["request"].user.  No
\* transaction wraps it: a raising get_or_create leaves what was written.
RecipeSerializer_create(db, v, user, auth_user) ==
    LET rid == db.nextId.recipe
        names == IF "tags" \in v.keys THEN v.tags ELSE <<>>
        st == CreateTagLoop(
                  [ tags |-> db.tags, next |-> db.nextId.tag, tag |-> {},
                    ok |-> TRUE ], names, auth_user)
        row == [ user |-> user, title |-> v.title, tag |-> st.tag,
                 ingredient |-> {} ]
        db2 == [ db EXCEPT !.recipes = With(db.recipes, rid, row),
                           !.tags = st.tags,
                           !.nextId = [ @ EXCEPT !.recipe = rid + 1,
                                                 !.tag = st.next ] ]
    IN  IF st.ok THEN Result(Created, <<RecipeRow(db2, rid)>>, rid, db2)
        ELSE Result(ServerError, <<>>, rid, db2)

\* mutant: an update() that pops "tags" with a default of [] and sets the
\* tag set from it, so that a body without tags clears the set
RecipeSerializer_update_clears_tags(db, id, v, nested_assert) ==
    LET row == [ db.recipes[id] EXCEPT
                   !.title = IF "title" \in v.keys THEN v.title ELSE @,
                   !.tag = IF "tags" \in v.keys THEN @ ELSE {} ]
        db2 == [ db EXCEPT !.recipes = With(db.recipes, id, row) ]
    IN Result(OK, <<RecipeRow(db2, id)>>, id, db2)

\* The update() RecipeSerializer inherits (it defines none).  A writable
\* nested field in validated_data trips the framework's assertion on nested
\* writes when nested_assert; otherwise the list lands on an attribute of
\* the instance that save() does not store.  Scalars are set and saved.
RecipeSerializer_update(db, id, v, nested_assert) ==
    IF "tags" \in v.keys /\ nested_assert
    THEN Result(ServerError, <<>>, id, db)
    ELSE LET row == [ db.recipes[id] EXCEPT
                        !.title = IF "title" \in v.keys THEN v.title ELSE @ ]
             db2 == [ db EXCEPT !.recipes = With(db.recipes, id, row) ]
         IN Result(OK, <<RecipeRow(db2, id)>>, id, db2)

(* --------------------------- the view sets ----------------------------- *)
\* the rows of a queryset, rendered
RecipeRows(db, qs) == [ k \in 1..Len(qs) |-> RecipeRow(db, qs[k]) ]
AttrRows(tbl, qs) == [ k \in 1..Len(qs) |-> AttrRow(tbl, qs[k]) ]

\* mutant: serializer.save() with the owner the body names
perform_create_body_user(db, request_user, v) ==
    RecipeSerializer_create(db, v, v.user, request_user)

\* RecipeViewSet.perform_create: serializer.save(user=self.request.user)
perform_create(db, request_user, v) ==
    RecipeSerializer_create(db, v, request_user, request_user)

\* GET recipe-list?tag=..&ingredient=..  Neither the view set nor its
\* get_queryset reads request.query_params, and no filter backend is set on
\* the class: params has no part in the result.
Recipe_list(db, caller, params) ==
    IF ~IsAuthenticated(caller) THEN Result(Unauthorized, <<>>, 0, db)
    ELSE Result(OK, RecipeRows(db, RecipeViewSet_get_queryset(db, caller)), 0, db)

\* POST recipe-list
Recipe_create(db, caller, p) ==
    IF ~IsAuthenticated(caller) THEN Result(Unauthorized, <<>>, 0, db)
    ELSE IF ~RecipeSerializer_is_valid(p, FALSE) THEN Result(BadRequest, <<>>, 0, db)
    ELSE perform_create(db, caller, RecipeSerializer_validated_data(p))

\* GET recipe-detail
Recipe_retrieve(db, caller, id) ==
    IF ~IsAuthenticated(caller) THEN Result(Unauthorized, <<>>, id, db)
    ELSE IF ~InQueryset(RecipeViewSet_get_queryset(db, caller), id)
    THEN Result(NotFound, <<>>, id, db)
    ELSE Result(OK, <<RecipeRow(db, id)>>, id, db)

\* PUT (partial = FALSE) or PATCH (partial = TRUE) recipe-detail
Recipe_update(db, caller, id, p, partial, nested_assert) ==
    IF ~IsAuthenticated(caller) THEN Result(Unauthorized, <<>>, id, db)
    ELSE IF ~InQueryset(RecipeViewSet_get_queryset(db, caller), id)
    THEN Result(NotFound, <<>>, id, db)
    ELSE IF ~RecipeSerializer_is_valid(p, partial) THEN Result(BadRequest, <<>>, id, db)
    ELSE RecipeSerializer_update(db, id, RecipeSerializer_validated_data(p),
                                 nested_assert)

\* DELETE recipe-detail
Recipe_destroy(db, caller, id) ==
    IF ~IsAuthenticated(caller) THEN Result(Unauthorized, <<>>, id, db)
    ELSE IF ~InQueryset(RecipeViewSet_get_queryset(db, caller), id)
    THEN Result(NotFound, <<>>, id, db)
    ELSE Result(NoContent, <<>>, id, DeleteRecipe(db, id))

\* GET tag-list / ingredient-list, with ?assigned_only=1 when assigned_only.
\* get_queryset reads no query parameter: the flag has no part in the result.
Attr_list(db, res, caller, assigned_only) ==
    IF ~IsAuthenticated(caller) THEN Result(Unauthorized, <<>>, 0, db)
    ELSE Result(OK,
                AttrRows(Table(db, res),
                         BaseRecipeAtrrViewSet_get_queryset(Table(db, res), caller)),
                0, db)

\* PUT or PATCH tag-detail / ingredient-detail with body {"name": item} or {}
\* (item = NoName).  A name another row of the owner holds violates the
\* store's constraint and the request dies with the store's error.
Attr_update(db, res, caller, id, item, partial) ==
    LET tbl == Table(db, res) IN
    IF ~IsAuthenticated(caller) THEN Result(Unauthorized, <<>>, id, db)
    ELSE IF ~InQueryset(BaseRecipeAtrrViewSet_get_queryset(tbl, caller), id)
    THEN Result(NotFound, <<>>, id, db)
    ELSE IF ~AttrSerializer_is_valid(res, item)
    THEN IF partial THEN Result(OK, <<AttrRow(tbl, id)>>, id, db)
         ELSE Result(BadRequest, <<>>, id, db)
    ELSE IF ~UniqueOwnerName(tbl, id, tbl[id].user, item)
    THEN Result(ServerError, <<>>, id, db)
    ELSE LET tbl2 == With(tbl, id, [ tbl[id] EXCEPT !.name = item ])
         IN Result(OK, <<AttrRow(tbl2, id)>>, id, WithAttrTable(db, res, tbl2))

\* mutant: the delete takes the recipes that refer to the row with it
Attr_destroy_cascades_to_recipes(db, res, caller, id) ==
    IF ~IsAuthenticated(caller) THEN Result(Unauthorized, <<>>, id, db)
    ELSE IF ~InQueryset(BaseRecipeAtrrViewSet_get_queryset(Table(db, res), caller), id)
    THEN Result(NotFound, <<>>, id, db)
    ELSE LET gone == DeleteAttr(db, res, id)
             kept == { r \in DOMAIN db.recipes :
                         id \notin (IF res = "tag" THEN db.recipes[r].tag
                                    ELSE db.recipes[r].ingredient) }
         IN Result(NoContent, <<>>, id,
                   [ gone EXCEPT !.recipes = [ r \in kept |-> gone.recipes[r] ] ])

\* DELETE tag-detail / ingredient-detail
Attr_destroy(db, res, caller, id) ==
    IF ~IsAuthenticated(caller) THEN Result(Unauthorized, <<>>, id, db)
    ELSE IF ~InQueryset(BaseRecipeAtrrViewSet_get_queryset(Table(db, res), caller), id)
    THEN Result(NotFound, <<>>, id, db)
    ELSE Result(NoContent, <<>>, id, DeleteAttr(db, res, id))

\* a method the view set does not route (POST tag-list, GET tag-detail, ...):
\* the permission check comes first, then the method is refused
Attr_not_routed(db, res, caller, id) ==
    IF ~IsAuthenticated(caller) THEN Result(Unauthorized, <<>>, id, db)
    ELSE Result(MethodNotAllowed, <<>>, id, db)

\* the outcome of action op of view set res, whichever it is
Dispatch(db, res, op, caller, id, p, item, partial, nested_assert) ==
    IF op \notin ViewSetActions(res) THEN Attr_not_routed(db, res, caller, id)
    ELSE IF res = "recipe" THEN
        CASE op = "list" -> Recipe_list(db, caller, NoParams)
          [] op = "create" -> Recipe_create(db, caller, p)
          [] op = "retrieve" -> Recipe_retrieve(db, caller, id)
          [] op = "update" -> Recipe_update(db, caller, id, p, partial, nested_assert)
          [] op = "destroy" -> Recipe_destroy(db, caller, id)
    ELSE
        CASE op = "list" -> Attr_list(db, res, caller, FALSE)
          [] op = "update" -> Attr_update(db, res, caller, id, item, partial)
          [] op = "destroy" -> Attr_destroy(db, res, caller, id)

(* ------------------------------ actions -------------------------------- *)
NoResp ==
    [ op |-> "none", res |-> "none", caller |-> Anonymous, id |-> 0,
      status |-> "none", data |-> <<>> ]

\* The request handlers that run RecipeSerializer.create statement by
\* statement (SpecConc below).  A handler's record: where it stands (pc),
\* request.user, the tag names of validated_data, the index k of the name
\* the loop is at, the id rid of the recipe row it inserted, tag_obj, the
\* status it answered, and whether an insert of it hit the unique constraint.
Writers == {"w1", "w2"}
IdleProc ==
    [ pc |-> "idle", user |-> Anonymous, names |-> <<>>, k |-> 0, rid |-> 0,
      tag_obj |-> 0, status |-> "none", raced |-> FALSE ]

\* what a reader of the store last read: a recipe row's id and its tag set
NoSeen == [ rid |-> 0, tag |-> {} ]

Init ==
    /\ recipes = << >>
    /\ tags = << >>
    /\ ingredients = << >>
    /\ nextId = [ recipe |-> 1, tag |-> 1, ingredient |-> 1 ]
    /\ resp = NoResp
    /\ proc = [ w \in Writers |-> IdleProc ]
    /\ seen = NoSeen

\* the model stops handing out ids beyond the bounds
WithinBounds(db) ==
    /\ db.nextId.recipe <= MaxRecipeId + 1
    /\ db.nextId.tag <= MaxTagId + 1
    /\ db.nextId.ingredient <= MaxIngredientId + 1

\* the store becomes r.db and the caller receives r
Respond(op, res, caller, r) ==
    /\ resp = NoResp
    /\ WithinBounds(r.db)
    /\ recipes' = r.db.recipes
    /\ tags' = r.db.tags
    /\ ingredients' = r.db.ingredients
    /\ nextId' = r.db.nextId
    /\ resp' = [ op |-> op, res |-> res, caller |-> caller, id |-> r.id,
                 status |-> r.status, data |-> r.data ]
    /\ UNCHANGED <<proc, seen>>

RecipeIds == 1..MaxRecipeId
\* Whether the inherited update() refuses a nested list is the installed
\* framework's choice; both are taken for a body that carries one.
NestedWriteChecks(p) == IF "tags" \in p.keys THEN BOOLEAN ELSE {FALSE}
AttrIds(res) == IF res = "tag" THEN 1..MaxTagId ELSE 1..MaxIngredientId

\* the action name of UpdateModelMixin for PATCH and for PUT
UpdateAction(partial) == IF partial THEN "partial_update" ELSE "update"

RecipeList(caller, params) ==
    Respond("list", "recipe", caller, Recipe_list(DB, caller, params))

RecipeCreate(caller, p) ==
    Respond("create", "recipe", caller, Recipe_create(DB, caller, p))

RecipeRetrieve(caller, id) ==
    Respond("retrieve", "recipe", caller, Recipe_retrieve(DB, caller, id))

RecipeUpdate(caller, id, p, partial, nested_assert) ==
    Respond(UpdateAction(partial), "recipe", caller,
            Recipe_update(DB, caller, id, p, partial, nested_assert))

RecipeDestroy(caller, id) ==
    Respond("destroy", "recipe", caller, Recipe_destroy(DB, caller, id))

AttrList(res, caller, assigned_only) ==
    Respond("list", res, caller, Attr_list(DB, res, caller, assigned_only))

AttrUpdate(res, caller, id, item, partial) ==
    Respond(UpdateAction(partial), res, caller,
            Attr_update(DB, res, caller, id, item, partial))

AttrDestroy(res, caller, id) ==
    Respond("destroy", res, caller, Attr_destroy(DB, res, caller, id))

AttrNotRouted(res, op, caller, id) ==
    Respond(op, res, caller, Attr_not_routed(DB, res, caller, id))

(* Rows written through the ORM, as the tests' set-up writes them.          *)
Fixture(db) ==
    /\ resp = NoResp
    /\ WithinBounds(db)
    /\ recipes' = db.recipes
    /\ tags' = db.tags
    /\ ingredients' = db.ingredients
    /\ nextId' = db.nextId
    /\ resp' = NoResp
    /\ UNCHANGED <<proc, seen>>

\* test_recipe_api.create_recipe(user)
FixtureCreateRecipe(user) ==
    Fixture([ DB EXCEPT
        !.recipes = With(recipes, nextId.recipe,
                         [ user |-> user, title |-> DefaultTitle, tag |-> {},
                           ingredient |-> {} ]),
        !.nextId = [ @ EXCEPT !.recipe = @ + 1 ] ])

\* Tag.objects.create(user=user, name=name), Ingredient.objects.create(...)
FixtureCreateAttr(res, user, name) ==
    /\ UniqueOwnerName(Table(DB, res), 0, user, name)
    /\ Fixture([ WithAttrTable(DB, res,
                     With(Table(DB, res), nextId[res],
                          [user |-> user, name |-> name]))
                 EXCEPT !.nextId = [ @ EXCEPT ![res] = @ + 1 ] ])

\* recipe.tag.add(tag), recipe.ingredient.add(ingredient): a row of the
\* recipe's own user
FixtureAdd(res, rid, aid) ==
    /\ rid \in DOMAIN recipes
    /\ aid \in DOMAIN Table(DB, res)
    /\ Table(DB, res)[aid].user = recipes[rid].user
    /\ Fixture([ DB EXCEPT !.recipes =
           With(recipes, rid,
                IF res = "tag"
                THEN [ recipes[rid] EXCEPT !.tag = @ \cup {aid} ]
                ELSE [ recipes[rid] EXCEPT !.ingredient = @ \cup {aid} ]) ])

\* the response leaves the server; requests are handled one at a time
Deliver ==
    /\ resp # NoResp
    /\ resp' = NoResp
    /\ UNCHANGED <<recipes, tags, ingredients, nextId, proc, seen>>

Next ==
    \/ \E c \in Callers, q \in RecipeParams : RecipeList(c, q)
    \/ \E c \in Callers, p \in Payloads : RecipeCreate(c, p)
    \/ \E c \in Callers, id \in RecipeIds : RecipeRetrieve(c, id)
    \/ \E c \in Callers, id \in RecipeIds, p \in Payloads, partial \in BOOLEAN :
          \E nested_assert \in NestedWriteChecks(p) :
            RecipeUpdate(c, id, p, partial, nested_assert)
    \/ \E c \in Callers, id \in RecipeIds : RecipeDestroy(c, id)
    \/ \E res \in AttrResources, c \in Callers, assigned_only \in BOOLEAN :
          AttrList(res, c, assigned_only)
    \/ \E res \in AttrResources : \E c \in Callers, id \in AttrIds(res),
          item \in AttrPayloads(res), partial \in BOOLEAN :
            AttrUpdate(res, c, id, item, partial)
    \/ \E res \in AttrResources : \E c \in Callers, id \in AttrIds(res) :
            AttrDestroy(res, c, id)
    \/ \E res \in AttrResources : \E op \in {"create", "retrieve"}, c \in Callers,
          id \in AttrIds(res) : AttrNotRouted(res, op, c, id)
    \/ \E u \in Users : FixtureCreateRecipe(u)
    \/ \E res \in AttrResources : \E u \in Users, n \in NamesOf(res) :
            FixtureCreateAttr(res, u, n)
    \/ \E res \in AttrResources : \E rid \in RecipeIds, aid \in AttrIds(res) :
            FixtureAdd(res, rid, aid)
    \/ Deliver

Spec == Init /\ [][Next]_vars

(* ------------- RecipeSerializer.create, statement by statement --------- *)
(* Handlers of POST recipe-list by authenticated users run side by side.   *)
(* Nothing in create() or in the view opens a transaction, so each         *)
(* statement of the store is committed as it runs.                         *)

\* the get() of get_or_create: the rows that match
get_or_create_get(tbl, user, name) ==
    { i \in DOMAIN tbl : tbl[i].user = user /\ tbl[i].name = name }

\* mutant: the constraint violation of the insert is not caught
get_or_create_retry_raises(tbl, user, name) == [ ok |-> FALSE, id |-> 0 ]

\* get_or_create after its insert was refused by the unique constraint: it
\* looks the row up once more and raises if it is still not there
get_or_create_retry(tbl, user, name) ==
    LET found == get_or_create_get(tbl, user, name)
    IN  IF Cardinality(found) = 1
        THEN [ ok |-> TRUE, id |-> CHOOSE i \in found : TRUE ]
        ELSE [ ok |-> FALSE, id |-> 0 ]

Store == <<recipes, tags, ingredients, nextId>>

\* handler w moves to record r
Goto(w, r) == proc' = [ proc EXCEPT ![w] = r ]

\* the view validates the body: a tag without a name is a 400
CreateBegin(w, user, names) ==
    /\ proc[w].pc = "idle"
    /\ Goto(w, IF \A i \in 1..Len(names) : TagSerializer_is_valid(names[i])
               THEN [ proc[w] EXCEPT !.pc = "insert", !.user = user,
                                     !.names = names, !.k = 1 ]
               ELSE [ proc[w] EXCEPT !.pc = "done", !.user = user,
                                     !.names = names, !.status = BadRequest ])
    /\ UNCHANGED <<Store, resp, seen>>

\* line 31: recipe = Recipe.objects.create(**validated_data)
CreateInsertRecipe(w) ==
    /\ proc[w].pc = "insert"
    /\ recipes' = With(recipes, nextId.recipe,
                       [ user |-> proc[w].user, title |-> NewTitle,
                         tag |-> {}, ingredient |-> {} ])
    /\ nextId' = [ nextId EXCEPT !.recipe = @ + 1 ]
    /\ Goto(w, IF proc[w].names = <<>>
               THEN [ proc[w] EXCEPT !.pc = "done", !.rid = nextId.recipe,
                                     !.status = Created ]
               ELSE [ proc[w] EXCEPT !.pc = "get", !.rid = nextId.recipe ])
    /\ UNCHANGED <<tags, ingredients, resp, seen>>

\* lines 34-37, the lookup of get_or_create
CreateGet(w) ==
    /\ proc[w].pc = "get"
    /\ LET found == get_or_create_get(tags, proc[w].user,
                                      proc[w].names[proc[w].k])
       IN Goto(w, IF found = {} THEN [ proc[w] EXCEPT !.pc = "create" ]
                  ELSE IF Cardinality(found) = 1
                  THEN [ proc[w] EXCEPT !.pc = "add",
                                        !.tag_obj = CHOOSE i \in found : TRUE ]
                  ELSE [ proc[w] EXCEPT !.pc = "done", !.status = ServerError ])
    /\ UNCHANGED <<Store, resp, seen>>

\* lines 34-37, the insert of get_or_create after the lookup found nothing:
\* the store refuses a second row of the same owner and name
CreateInsertTag(w) ==
    /\ proc[w].pc = "create"
    /\ LET name == proc[w].names[proc[w].k]
       IN IF UniqueOwnerName(tags, 0, proc[w].user, name)
          THEN /\ tags' = With(tags, nextId.tag,
                               [ user |-> proc[w].user, name |-> name ])
               /\ nextId' = [ nextId EXCEPT !.tag = @ + 1 ]
               /\ Goto(w, [ proc[w] EXCEPT !.pc = "add",
                                           !.tag_obj = nextId.tag ])
          ELSE /\ Goto(w, [ proc[w] EXCEPT !.pc = "retry", !.raced = TRUE ])
               /\ UNCHANGED <<tags, nextId>>
    /\ UNCHANGED <<recipes, ingredients, resp, seen>>

\* lines 34-37, get_or_create after the refused insert
CreateRetry(w) ==
    /\ proc[w].pc = "retry"
    /\ LET r == get_or_create_retry(tags, proc[w].user,
                                    proc[w].names[proc[w].k])
       IN Goto(w, IF r.ok
                  THEN [ proc[w] EXCEPT !.pc = "add", !.tag_obj = r.id ]
                  ELSE [ proc[w] EXCEPT !.pc = "done", !.status = ServerError ])
    /\ UNCHANGED <<Store, resp, seen>>

\* line 38: recipe.tag.add(tag_obj), then the next name or the response
CreateAdd(w) ==
    /\ proc[w].pc = "add"
    /\ recipes' = With(recipes, proc[w].rid,
                       [ recipes[proc[w].rid] EXCEPT
                           !.tag = @ \cup {proc[w].tag_obj} ])
    /\ Goto(w, IF proc[w].k = Len(proc[w].names)
               THEN [ proc[w] EXCEPT !.pc = "done", !.status = Created ]
               ELSE [ proc[w] EXCEPT !.pc = "get", !.k = @ + 1 ])
    /\ UNCHANGED <<tags, ingredients, nextId, resp, seen>>

\* another handler reads a recipe row and its tags: recipe.tag.all()
Read(rid) ==
    /\ rid \in DOMAIN recipes
    /\ seen' = [ rid |-> rid, tag |-> recipes[rid].tag ]
    /\ UNCHANGED <<Store, resp, proc>>

NextConc ==
    \/ \E w \in Writers, u \in Users, names \in TagLists : CreateBegin(w, u, names)
    \/ \E w \in Writers : CreateInsertRecipe(w)
    \/ \E w \in Writers : CreateGet(w)
    \/ \E w \in Writers : CreateInsertTag(w)
    \/ \E w \in Writers : CreateRetry(w)
    \/ \E w \in Writers : CreateAdd(w)
    \/ \E rid \in RecipeIds : Read(rid)

SpecConc == Init /\ [][NextConc]_vars

(* ------------------------- requests, for the claims -------------------- *)
Ops == {"list", "create", "retrieve", "update", "destroy"}
Forbidden == "403"

NoBody == Body({}, <<>>, <<>>, "u1")

Req(op, id, p, item, partial, nested_assert) ==
    [ op |-> op, id |-> id, p |-> p, item |-> item, partial |-> partial,
      nested_assert |-> nested_assert ]

\* every request a caller can send to view set res; ids run one past the
\* bound, so that an id that was never assigned is always among them
IdsOf(res) ==
    IF res = "recipe" THEN 1..(MaxRecipeId + 1)
    ELSE IF res = "tag" THEN 1..(MaxTagId + 1) ELSE 1..(MaxIngredientId + 1)

Requests(res) ==
    IF res = "recipe"
    THEN { Req("list", 0, NoBody, NoName, FALSE, FALSE) }
         \cup { Req("create", 0, p, NoName, FALSE, FALSE) : p \in Payloads }
         \cup { Req(op, id, NoBody, NoName, FALSE, FALSE) :
                  op \in {"retrieve", "destroy"}, id \in IdsOf(res) }
         \cup UNION { { Req("update", id, p, NoName, partial, na) :
                          id \in IdsOf(res), partial \in BOOLEAN,
                          na \in NestedWriteChecks(p) } : p \in Payloads }
    ELSE { Req(op, 0, NoBody, NoName, FALSE, FALSE) : op \in {"list", "create"} }
         \cup { Req(op, id, NoBody, NoName, FALSE, FALSE) :
                  op \in {"retrieve", "destroy"}, id \in IdsOf(res) }
         \cup { Req("update", id, NoBody, item, partial, FALSE) :
                  id \in IdsOf(res), item \in AttrPayloads(res),
                  partial \in BOOLEAN }

Handle(db, res, caller, rq) ==
    Dispatch(db, res, rq.op, caller, rq.id, rq.p, rq.item, rq.partial,
             rq.nested_assert)

\* no request is being answered
Idle == resp = NoResp

\* row i of table res exists in db and belongs to somebody other than user
Foreign(db, res, i, user) ==
    i \in DOMAIN Table(db, res) /\ Table(db, res)[i].user # user

\* the ids of the rows a response renders
DataIds(data) == { data[k].id : k \in 1..Len(data) }

(* ------------------------------- claims -------------------------------- *)

\* C1: whatever one user B requests, with whatever identifier and body, the
\* response renders only rows B owns, and every Recipe, Tag and Ingredient
\* row of another owner is still there afterwards, unchanged.
C1_OwnerIsolation ==
    Idle =>
      \A B \in Users, res \in Resources : \A rq \in Requests(res) :
        LET r == Handle(DB, res, B, rq) IN
        /\ \A i \in DataIds(r.data) :
              i \in DOMAIN Table(r.db, res) /\ Table(r.db, res)[i].user = B
        /\ \A other \in Resources : \A i \in DOMAIN Table(DB, other) :
              Table(DB, other)[i].user # B =>
                /\ i \in DOMAIN Table(r.db, other)
                /\ Table(r.db, other)[i] = Table(DB, other)[i]
        /\ (rq.op \in {"retrieve", "update", "destroy"} /\ Foreign(DB, res, rq.id, B))
              => r.data = <<>> /\ r.db = DB

\* C1 witness: B asked to delete a recipe of A by its correct id, was told
\* it is not there, and the recipe still is.
C1_Witness ==
    /\ resp.op = "destroy" /\ resp.res = "recipe"
    /\ resp.caller \in Users
    /\ resp.status = NotFound
    /\ Foreign(DB, "recipe", resp.id, resp.caller)

\* C2: for an authenticated caller, a detail retrieve, update or delete on
\* an id owned by somebody else has the outcome of the same request on an id
\* that was never assigned: same status, nothing rendered, store unchanged;
\* the status is never an authorization error, and it is NotFound for every
\* operation the view set routes.
C2_ForeignLooksAbsent ==
    Idle =>
      \A B \in Users, res \in Resources : \A rq \in Requests(res) :
        (rq.op \in {"retrieve", "update", "destroy"} /\ Foreign(DB, res, rq.id, B)) =>
          \A never \in IdsOf(res) :
            never >= nextId[res] =>
              LET rf == Handle(DB, res, B, rq)
                  rn == Handle(DB, res, B, [rq EXCEPT !.id = never])
              IN /\ rf.status = rn.status
                 /\ rf.data = rn.data
                 /\ rf.db = DB /\ rn.db = DB
                 /\ rf.status \notin {Unauthorized, Forbidden}
                 /\ (rq.op \in ViewSetActions(res) => rf.status = NotFound)

\* C2 witness: B renamed, by its correct id, a tag of A and was answered
\* NotFound, while an id that was never assigned is available to compare.
C2_Witness ==
    /\ resp.op = "partial_update" /\ resp.res = "tag"
    /\ resp.caller \in Users
    /\ resp.status = NotFound
    /\ Foreign(DB, "tag", resp.id, resp.caller)
    /\ nextId.tag <= MaxTagId

\* C3: every operation on every resource, sent without a resolved identity,
\* is answered Unauthorized, renders nothing and leaves the store unchanged.
C3_UnauthenticatedFailsUniformly ==
    Idle =>
      \A res \in Resources : \A rq \in Requests(res) :
        LET r == Handle(DB, res, Anonymous, rq) IN
        /\ r.status = Unauthorized
        /\ r.data = <<>>
        /\ r.db = DB

\* C3 witness: an anonymous delete of an existing recipe was refused.
C3_Witness ==
    /\ resp.caller = Anonymous
    /\ resp.op = "destroy" /\ resp.res = "recipe"
    /\ resp.status = Unauthorized
    /\ resp.id \in DOMAIN recipes

\* the rows of tbl that user owns under one of names
Resolved(tbl, user, names) ==
    { i \in DOMAIN tbl : tbl[i].user = user /\ tbl[i].name \in names }

\* the body is one the serializers accept for a create
WellFormedCreate(p) ==
    /\ "title" \in p.keys
    /\ NoName \notin Range(p.tags)
    /\ NoName \notin Range(p.ingredients)

\* the bodies that carry a tags list
TagPayloads == { p \in Payloads : "tags" \in p.keys }

\* C4: get-or-create is idempotent.  After a recipe is created from a body
\* with tags, every submitted name has exactly one Tag row of the caller,
\* and that row is in the recipe's tag set, however often the name occurs in
\* the list; after a second create by the same caller, a name both bodies
\* carry still has that one row, and it is in both recipes' tag sets.
C4_GetOrCreateIdempotent ==
    Idle =>
      \A u \in Users, p \in TagPayloads :
        LET r1 == Recipe_create(DB, u, p) IN
        r1.status = Created =>
          /\ \A n \in Range(p.tags) :
                /\ Cardinality(Resolved(r1.db.tags, u, {n})) = 1
                /\ Resolved(r1.db.tags, u, {n}) \subseteq r1.db.recipes[r1.id].tag
          /\ \A q \in TagPayloads :
                LET r2 == Recipe_create(r1.db, u, q) IN
                r2.status = Created =>
                  \A n \in Range(p.tags) \cap Range(q.tags) :
                    /\ Resolved(r2.db.tags, u, {n}) = Resolved(r1.db.tags, u, {n})
                    /\ Resolved(r2.db.tags, u, {n}) \subseteq r2.db.recipes[r1.id].tag
                    /\ Resolved(r2.db.tags, u, {n}) \subseteq r2.db.recipes[r2.id].tag

\* C4 witness: a recipe was just created through the API, and it shares a
\* tag row with an earlier recipe of its owner that the API created too;
\* the owner has that name once.
C4_Witness ==
    /\ resp.op = "create" /\ resp.res = "recipe" /\ resp.status = Created
    /\ \E r1 \in DOMAIN recipes \ {resp.id} : \E t \in recipes[r1].tag :
          /\ recipes[r1].title = NewTitle
          /\ recipes[r1].user = resp.caller
          /\ t \in recipes[resp.id].tag
          /\ Cardinality(Resolved(tags, resp.caller, {tags[t].name})) = 1

\* C5 (as claimed): a create by an authenticated caller from a well-formed
\* body with nested lists for tags and for ingredients is accepted, and the
\* new recipe's tag set and
\* ingredient set are exactly the caller's rows of the submitted names, each
\* name having one: rows that existed are kept and reused, a row is added
\* only for a name the caller had none of.
C5_CreateResolvesBothLists ==
    [][ (Idle /\ resp'.op = "create" /\ resp'.res = "recipe"
              /\ resp'.caller \in Users) =>
          \A p \in Payloads :
            (WellFormedCreate(p) /\ RecipeCreate(resp'.caller, p)) =>
              LET u == resp'.caller
                  tn == IF "tags" \in p.keys THEN Range(p.tags) ELSE {}
                  in == IF "ingredients" \in p.keys THEN Range(p.ingredients) ELSE {}
              IN /\ resp'.status = Created
                 /\ recipes'[resp'.id].tag = Resolved(tags', u, tn)
                 /\ recipes'[resp'.id].ingredient = Resolved(ingredients', u, in)
                 /\ \A n \in tn : Cardinality(Resolved(tags', u, {n})) = 1
                 /\ \A n \in in : Cardinality(Resolved(ingredients', u, {n})) = 1
                 /\ \A i \in DOMAIN tags : i \in DOMAIN tags' /\ tags'[i] = tags[i]
                 /\ \A i \in DOMAIN ingredients :
                       i \in DOMAIN ingredients' /\ ingredients'[i] = ingredients[i]
                 /\ \A i \in DOMAIN tags' \ DOMAIN tags :
                       tags'[i].user = u /\ tags'[i].name \in tn
                                         /\ Resolved(tags, u, {tags'[i].name}) = {}
                 /\ \A i \in DOMAIN ingredients' \ DOMAIN ingredients :
                       ingredients'[i].user = u /\ ingredients'[i].name \in in
                          /\ Resolved(ingredients, u, {ingredients'[i].name}) = {}
      ]_vars

\* C6 (as claimed): an update of the caller's own recipe whose body carries
\* a well-formed tags (or ingredients) list is accepted and leaves the
\* recipe's set exactly the caller's rows of the submitted names, one per
\* name; an empty list leaves the set empty.
C6_UpdateReplacesAssociations ==
    [][ (Idle /\ resp'.op \in {"update", "partial_update"} /\ resp'.res = "recipe"
              /\ resp'.caller \in Users /\ resp'.id \in DOMAIN recipes) =>
          \A p \in Payloads, partial \in BOOLEAN, na \in BOOLEAN :
            ( /\ recipes[resp'.id].user = resp'.caller
              /\ (partial \/ "title" \in p.keys)
              /\ NoName \notin Range(p.tags) \cup Range(p.ingredients)
              /\ RecipeUpdate(resp'.caller, resp'.id, p, partial, na) ) =>
              LET u == resp'.caller
                  id == resp'.id
              IN /\ resp'.status = OK
                 /\ "tags" \in p.keys =>
                      /\ recipes'[id].tag = Resolved(tags', u, Range(p.tags))
                      /\ \A n \in Range(p.tags) :
                            Cardinality(Resolved(tags', u, {n})) = 1
                 /\ "ingredients" \in p.keys =>
                      /\ recipes'[id].ingredient =
                            Resolved(ingredients', u, Range(p.ingredients))
                      /\ \A n \in Range(p.ingredients) :
                            Cardinality(Resolved(ingredients', u, {n})) = 1
      ]_vars

\* C7: a partial update (PATCH) of a recipe, whatever its outcome, leaves
\* every other recipe as it was, keeps the recipe's owner, keeps its title
\* unless the body carries one, and keeps its tag set and the Tag table (its
\* ingredient set and the Ingredient table) unless the body carries tags
\* (ingredients).
C7_PartialUpdateFrame ==
    Idle =>
      \A c \in Callers, id \in IdsOf("recipe"), p \in Payloads :
        \A na \in NestedWriteChecks(p) :
          LET r == Recipe_update(DB, c, id, p, TRUE, na) IN
          /\ DOMAIN r.db.recipes = DOMAIN recipes
          /\ \A i \in DOMAIN recipes :
                /\ i # id => r.db.recipes[i] = recipes[i]
                /\ r.db.recipes[i].user = recipes[i].user
                /\ "title" \notin p.keys => r.db.recipes[i].title = recipes[i].title
                /\ "tags" \notin p.keys => r.db.recipes[i].tag = recipes[i].tag
                /\ "ingredients" \notin p.keys =>
                      r.db.recipes[i].ingredient = recipes[i].ingredient
          /\ "tags" \notin p.keys => r.db.tags = tags
          /\ "ingredients" \notin p.keys => r.db.ingredients = ingredients
          /\ r.db.nextId = nextId

\* C7 witness: a PATCH of a recipe that has tags and ingredients was
\* accepted; the recipe carries the title a body sets and still has both.
C7_Witness ==
    /\ resp.op = "partial_update" /\ resp.res = "recipe" /\ resp.status = OK
    /\ recipes[resp.id].title = NewTitle
    /\ recipes[resp.id].tag # {}
    /\ recipes[resp.id].ingredient # {}

\* C8: every Tag and every Ingredient in a recipe's association sets is a
\* row of the recipe's owner.
C8_AssociationsShareOwner ==
    \A r \in DOMAIN recipes :
      /\ \A t \in recipes[r].tag :
            t \in DOMAIN tags /\ tags[t].user = recipes[r].user
      /\ \A i \in recipes[r].ingredient :
            i \in DOMAIN ingredients /\ ingredients[i].user = recipes[r].user

\* C8 witness: the API created a recipe with a tag while another user owns
\* a tag of the same name.
C8_Witness ==
    /\ resp.op = "create" /\ resp.res = "recipe" /\ resp.status = Created
    /\ \E t \in recipes[resp.id].tag : \E o \in DOMAIN tags :
          tags[o].user # resp.caller /\ tags[o].name = tags[t].name

\* C9: a recipe the API creates belongs to the caller of the request,
\* whatever the body says, and no step changes the owner of a recipe.
C9_OwnerIsActingIdentity ==
    [][ /\ \A i \in DOMAIN recipes' \ DOMAIN recipes :
              resp' # NoResp =>
                /\ resp'.op = "create" /\ resp'.res = "recipe"
                /\ resp'.id = i
                /\ recipes'[i].user = resp'.caller
        /\ \A i \in DOMAIN recipes \cap DOMAIN recipes' :
              recipes'[i].user = recipes[i].user
      ]_vars

\* C9 witness: the API created a recipe for its caller while a recipe of
\* another user exists.
C9_Witness ==
    /\ resp.op = "create" /\ resp.res = "recipe" /\ resp.status = Created
    /\ recipes[resp.id].user = resp.caller
    /\ \E o \in DOMAIN recipes : recipes[o].user # resp.caller

\* a recipe list response renders exactly the caller's recipes, each once,
\* by strictly descending id
RecipeListOrdered ==
    (resp.op = "list" /\ resp.res = "recipe" /\ resp.status = OK) =>
      /\ DataIds(resp.data) = FilterUser(recipes, resp.caller)
      /\ Len(resp.data) = Cardinality(FilterUser(recipes, resp.caller))
      /\ \A k \in 1..(Len(resp.data) - 1) : resp.data[k].id > resp.data[k + 1].id

\* C10: the recipe list is the caller's recipes, each once, by strictly
\* descending id; and ids follow creation: a new recipe's id is above every
\* id assigned before it, deleted ones included.
C10_ListNewestFirst ==
    [][ /\ RecipeListOrdered'
        /\ \A i \in DOMAIN recipes : i < nextId.recipe
        /\ nextId'.recipe >= nextId.recipe
        /\ \A i \in DOMAIN recipes' \ DOMAIN recipes :
              i >= nextId.recipe /\ i < nextId'.recipe
      ]_vars

\* C10 witness: a list response with two recipes of the caller.
C10_Witness ==
    /\ resp.op = "list" /\ resp.res = "recipe" /\ resp.status = OK
    /\ Len(resp.data) = 2

\* the caller's recipes that match the filter parameters: the tag set meets
\* the listed tag ids, and the ingredient set the listed ingredient ids
Matching(db, user, params) ==
    { i \in FilterUser(db.recipes, user) :
        /\ "tag" \in params.keys => db.recipes[i].tag \cap params.tag # {}
        /\ "ingredient" \in params.keys =>
              db.recipes[i].ingredient \cap params.ingredient # {} }

\* C11: listing recipes with the filter parameter tag and/or ingredient
\* returns exactly the caller's recipes whose tag set intersects the given
\* tag ids and (when given) whose ingredient set intersects the given
\* ingredient ids; a caller's recipe with no matching association is
\* excluded.
C11_ListFilteredByAssociation ==
    Idle =>
      \A c \in Users, q \in RecipeParams :
        q.keys # {} =>
          LET r == Recipe_list(DB, c, q)
          IN /\ r.status = OK
             /\ DataIds(r.data) = Matching(DB, c, q)

\* the caller's rows of table res that some recipe of the caller refers to
Assigned(db, res, user) ==
    { i \in FilterUser(Table(db, res), user) :
        \E rid \in FilterUser(db.recipes, user) :
           i \in (IF res = "tag" THEN db.recipes[rid].tag
                  ELSE db.recipes[rid].ingredient) }

\* C12: listing Tags (or Ingredients) with assigned_only=1 returns exactly
\* the caller's entities that are associated with at least one recipe owned
\* by the caller, each exactly once; an unassigned entity is excluded.
C12_AssignedOnlyListing ==
    Idle =>
      \A res \in AttrResources, c \in Users :
        LET r == Attr_list(DB, res, c, TRUE)
        IN /\ r.status = OK
           /\ DataIds(r.data) = Assigned(DB, res, c)
           /\ Len(r.data) = Cardinality(Assigned(DB, res, c))

\* request rq to the recipe view set carries a nested list with an object
\* that has no name, and reaches the serializer (the caller is authenticated
\* and, for an update, the recipe is the caller's)
MalformedNested(db, caller, rq) ==
    /\ rq.op \in {"create", "update"}
    /\ caller \in Users
    /\ rq.op = "update" => rq.id \in FilterUser(db.recipes, caller)
    /\ \/ "tags" \in rq.p.keys /\ NoName \in Range(rq.p.tags)
       \/ "ingredients" \in rq.p.keys /\ NoName \in Range(rq.p.ingredients)

Succeeded(status) == status \in {OK, Created, NoContent}

\* C13: every write that fails leaves the store unchanged: a recipe create
\* or update whose nested list contains an object without a name fails with
\* a validation error and creates no Recipe, Tag or Ingredient row, and no
\* failing request leaves a recipe row or a partial set of associations
\* behind.
C13_FailedWritesLeaveStoreUnchanged ==
    Idle =>
      \A res \in Resources, c \in Callers :
        \A rq \in Requests(res) :
          LET r == Handle(DB, res, c, rq)
          IN /\ ~Succeeded(r.status) => r.db = DB
             /\ (res = "recipe" /\ MalformedNested(DB, c, rq)) =>
                   r.status = BadRequest /\ r.db = DB

\* the rows of tbl that carry (user, name)
RowsOf(tbl, user, name) == get_or_create_get(tbl, user, name)

\* handlers w1 and w2 have both answered a well-formed create of the same
\* user, and both bodies name tag n
BothNamed(w1, w2, n) ==
    /\ w1 # w2
    /\ proc[w1].pc = "done" /\ proc[w2].pc = "done"
    /\ proc[w1].user = proc[w2].user
    /\ NoName \notin Range(proc[w1].names) \cup Range(proc[w2].names)
    /\ n \in Range(proc[w1].names) \cap Range(proc[w2].names)

\* C14: when two recipe writes by the same owner naming the same tag run
\* with their lookup and create steps interleaved, both writes succeed,
\* exactly one Tag row exists for that (owner, name) afterwards, and both
\* recipes are associated with that single row: the creator that loses the
\* race looks the row up again.
C14_ConcurrentGetOrCreate ==
    \A w1, w2 \in Writers, n \in Names :
      BothNamed(w1, w2, n) =>
        /\ proc[w1].status = Created /\ proc[w2].status = Created
        /\ Cardinality(RowsOf(tags, proc[w1].user, n)) = 1
        /\ RowsOf(tags, proc[w1].user, n) \subseteq
              recipes[proc[w1].rid].tag \cap recipes[proc[w2].rid].tag

\* both writes are answered and one of them lost the race on the insert
C14_Witness ==
    \E w1, w2 \in Writers, n \in Names :
      /\ BothNamed(w1, w2, n)
      /\ proc[w2].raced
      /\ proc[w1].status = Created /\ proc[w2].status = Created

\* C15: a read that runs concurrently with a recipe write never observes a
\* partially applied write: the recipe a create inserted is read either not
\* at all or with its complete resolved association set, never with only
\* some of its associations attached.
C15_NoPartialWriteVisible ==
    \A w \in Writers :
      (seen # NoSeen /\ proc[w].rid = seen.rid) =>
         { tags[i].name : i \in seen.tag } = Range(proc[w].names)

\* no two rows of tbl have the same owner and the same name
UniquePerOwner(tbl) ==
    \A i, j \in DOMAIN tbl :
      (tbl[i].user = tbl[j].user /\ tbl[i].name = tbl[j].name) => i = j

NoDangling(rs, ts, is) ==
    \A r \in DOMAIN rs :
      rs[r].tag \subseteq DOMAIN ts /\ rs[r].ingredient \subseteq DOMAIN is

\* C17: deleting a Tag or Ingredient by its owner removes exactly that row
\* and its membership in every recipe's association set, and removes no
\* Recipe and no other Tag or Ingredient; deleting a Recipe removes none of
\* the Tags or Ingredients; every association set refers only to existing
\* entities in every reachable state.
C17_DeleteFrame ==
    [][ /\ NoDangling(recipes', tags', ingredients')
        /\ (resp'.op = "destroy" /\ resp'.status = NoContent /\ resp'.res = "tag") =>
              /\ resp'.id \in DOMAIN tags /\ tags[resp'.id].user = resp'.caller
              /\ tags' = Without(tags, resp'.id)
              /\ ingredients' = ingredients
              /\ recipes' = [ r \in DOMAIN recipes |->
                               [ recipes[r] EXCEPT !.tag = @ \ {resp'.id} ] ]
        /\ (resp'.op = "destroy" /\ resp'.status = NoContent
              /\ resp'.res = "ingredient") =>
              /\ resp'.id \in DOMAIN ingredients
              /\ ingredients[resp'.id].user = resp'.caller
              /\ ingredients' = Without(ingredients, resp'.id)
              /\ tags' = tags
              /\ recipes' = [ r \in DOMAIN recipes |->
                               [ recipes[r] EXCEPT !.ingredient = @ \ {resp'.id} ] ]
        /\ (resp'.op = "destroy" /\ resp'.status = NoContent
              /\ resp'.res = "recipe") =>
              /\ recipes' = Without(recipes, resp'.id)
              /\ tags' = tags /\ ingredients' = ingredients
      ]_vars

\* C17 witness: a tag was deleted by its owner, and a recipe of the owner
\* still holds the owner's other tag and an ingredient.
C17_Witness ==
    /\ resp.op = "destroy" /\ resp.res = "tag" /\ resp.status = NoContent
    /\ resp.id \notin DOMAIN tags
    /\ \E r \in DOMAIN recipes :
          /\ recipes[r].user = resp.caller
          /\ recipes[r].tag # {} /\ recipes[r].ingredient # {}

====
